---- MODULE Spec2Model ----
(***************************************************************************)
(* Selection component of the strokes state (src/strokes/selection_comp.rs) *)
(* as a state machine: the sparse component maps, the stroke registry and   *)
(* the cached selection bounds, with one action per public mutator.         *)
(*                                                                          *)
(* Coordinates are f64 in the source and IEEE-754 binary64 values here:     *)
(* every operation rounds to the nearest value, ties to even, with signed   *)
(* zeros, infinities, NaN and gradual underflow.  Significands do not fit   *)
(* the integers of the checker and are kept as sequences of limbs.          *)
(***************************************************************************)
EXTENDS Integers, Naturals, Sequences, FiniteSets, TLC

(***************************************************************************)
(* Bounds of the model                                                      *)
(***************************************************************************)
\* capacity of the stroke registry explored (duplicate_selection is cut off above it)
MaxStrokes == 4
\* number of geometry changing calls (translate, resize, duplicate) explored per run
MaxTransforms == 1

(***************************************************************************)
(* f64 arithmetic                                                           *)
(***************************************************************************)
\* number of bits of a limb and the base of the limbs
LimbBits == 14

Base == 16384

\* f64: bits of the significand, least exponent of the last bit, bound of the
\* exponent of the value
MantBits == 53

MinExp == -1074

MaxExp == 1024

Pow2T == <<1, 2, 4, 8, 16, 32, 64, 128, 256, 512, 1024, 2048, 4096, 8192, 16384>>

Pow2(r) == Pow2T[r + 1]

Max(x, y) == IF x >= y THEN x ELSE y

\* naturals of any size: the limbs from the least one on, the last one not 0
Limb(a, i) == IF i >= 1 /\ i <= Len(a) THEN a[i] ELSE 0

RECURSIVE BTrim(_)
BTrim(a) ==
    IF a = <<>> THEN a
    ELSE IF a[Len(a)] # 0 THEN a
    ELSE BTrim(SubSeq(a, 1, Len(a) - 1))

RECURSIVE BAddC(_, _, _, _)
BAddC(a, b, i, carry) ==
    IF i > Len(a) /\ i > Len(b) THEN (IF carry = 0 THEN <<>> ELSE <<carry>>)
    ELSE LET t == Limb(a, i) + Limb(b, i) + carry
         IN <<t % Base>> \o BAddC(a, b, i + 1, t \div Base)

BAdd(a, b) == BAddC(a, b, 1, 0)

RECURSIVE BSubC(_, _, _, _)
BSubC(a, b, i, borrow) ==
    IF i > Len(a) THEN <<>>
    ELSE LET t == a[i] - Limb(b, i) - borrow
         IN IF t < 0 THEN <<t + Base>> \o BSubC(a, b, i + 1, 1)
            ELSE <<t>> \o BSubC(a, b, i + 1, 0)

\* a - b for a >= b
BSub(a, b) == BTrim(BSubC(a, b, 1, 0))

RECURSIVE BCmpC(_, _, _)
BCmpC(a, b, i) ==
    IF i = 0 THEN 0
    ELSE IF a[i] # b[i] THEN (IF a[i] < b[i] THEN -1 ELSE 1)
    ELSE BCmpC(a, b, i - 1)

\* -1, 0, 1 as a is below, equal to, above b
BCmp(a, b) ==
    IF Len(a) # Len(b) THEN (IF Len(a) < Len(b) THEN -1 ELSE 1)
    ELSE BCmpC(a, b, Len(a))

RECURSIVE ColSum(_, _, _, _)
ColSum(a, b, k, i) ==
    IF i > Len(a) THEN 0
    ELSE (IF k - i >= 1 /\ k - i <= Len(b) THEN a[i] * b[k - i] ELSE 0)
         + ColSum(a, b, k, i + 1)

RECURSIVE BMulC(_, _, _, _)
BMulC(a, b, k, carry) ==
    IF k > Len(a) + Len(b) + 1 THEN <<>>
    ELSE LET t == ColSum(a, b, k, 1) + carry
         IN <<t % Base>> \o BMulC(a, b, k + 1, t \div Base)

BMul(a, b) == BTrim(BMulC(a, b, 2, 0))

\* a * x for a limb x
RECURSIVE BMulSmallC(_, _, _, _)
BMulSmallC(a, x, i, carry) ==
    IF i > Len(a) THEN (IF carry = 0 THEN <<>> ELSE <<carry>>)
    ELSE LET t == (a[i] * x) + carry
         IN <<t % Base>> \o BMulSmallC(a, x, i + 1, t \div Base)

BMulSmall(a, x) == IF x = 0 THEN <<>> ELSE BMulSmallC(a, x, 1, 0)

\* a * 2^k
BShl(a, k) ==
    LET q == k \div LimbBits
        p == Pow2(k % LimbBits)
    IN IF k = 0 THEN a
       ELSE BTrim([i \in 1..(Len(a) + q + 1) |->
                   IF i <= q THEN 0
                   ELSE ((Limb(a, i - q) * p) % Base)
                        + ((Limb(a, i - q - 1) * p) \div Base)])

\* a \div 2^k
BShr(a, k) ==
    LET q == k \div LimbBits
        p == Pow2(k % LimbBits)
    IN IF k = 0 THEN a
       ELSE IF q >= Len(a) THEN <<>>
       ELSE BTrim([i \in 1..(Len(a) - q) |->
                     (a[i + q] \div p) + ((Limb(a, i + q + 1) % p) * (Base \div p))])

\* a % 2^k is not 0
LowNonzero(a, k) ==
    \/ \E i \in 1..Len(a) : i <= k \div LimbBits /\ a[i] # 0
    \/ (Limb(a, (k \div LimbBits) + 1) % Pow2(k % LimbBits)) # 0

Bit(a, k) == (Limb(a, (k \div LimbBits) + 1) \div Pow2(k % LimbBits)) % 2

\* the number of bits of a limb x > 0
LimbLen(x) ==
    IF x < 128
    THEN (IF x < 8 THEN (IF x < 2 THEN 1 ELSE IF x < 4 THEN 2 ELSE 3)
          ELSE IF x < 32 THEN (IF x < 16 THEN 4 ELSE 5)
          ELSE IF x < 64 THEN 6 ELSE 7)
    ELSE (IF x < 1024 THEN (IF x < 256 THEN 8 ELSE IF x < 512 THEN 9 ELSE 10)
          ELSE IF x < 4096 THEN (IF x < 2048 THEN 11 ELSE 12)
          ELSE IF x < 8192 THEN 13 ELSE 14)

BitLen(a) ==
    IF a = <<>> THEN 0 ELSE (Len(a) - 1) * LimbBits + LimbLen(a[Len(a)])

\* the number of 0 bits below the least 1 bit of a limb x > 0
LimbZeros(x) ==
    IF x % 128 # 0
    THEN (IF x % 8 # 0 THEN (IF x % 2 # 0 THEN 0 ELSE IF x % 4 # 0 THEN 1 ELSE 2)
          ELSE IF x % 32 # 0 THEN (IF x % 16 # 0 THEN 3 ELSE 4)
          ELSE IF x % 64 # 0 THEN 5 ELSE 6)
    ELSE (IF x % 1024 # 0 THEN (IF x % 256 # 0 THEN 7 ELSE IF x % 512 # 0 THEN 8 ELSE 9)
          ELSE IF x % 4096 # 0 THEN (IF x % 2048 # 0 THEN 10 ELSE 11)
          ELSE IF x % 8192 # 0 THEN 12 ELSE 13)

RECURSIVE TrailingZerosC(_, _)
TrailingZerosC(a, i) ==
    IF a[i] # 0 THEN (i - 1) * LimbBits + LimbZeros(a[i]) ELSE TrailingZerosC(a, i + 1)

\* the number of 0 bits below the least 1 bit of a # 0
TrailingZeros(a) == TrailingZerosC(a, 1)

\* the natural i < 2^31
BNat(i) == BTrim(<<i % Base, (i \div Base) % Base, i \div (Base * Base)>>)

\* a \div d and a % d for a limb d, from the limb i down
RECURSIVE BDivSmallC(_, _, _, _)
BDivSmallC(a, d, i, rem) ==
    IF i = 0 THEN [q |-> <<>>, r |-> rem]
    ELSE LET t    == (rem * Base) + a[i]
             rest == BDivSmallC(a, d, i - 1, t % d)
         IN [q |-> Append(rest.q, t \div d), r |-> rest.r]

\* the limb q = r \div d and r % d, from an estimate q that is not below it
RECURSIVE DivFix(_, _, _, _)
DivFix(r, d, q, t) ==
    IF BCmp(t, r) > 0 THEN DivFix(r, d, q - 1, BSub(t, d))
    ELSE [q |-> q, r |-> BSub(r, t)]

\* n limbs of the quotient of r * Base^n by d and what is left, for r < d and d of
\* four limbs, the top one of LimbBits bits
RECURSIVE DivLimbs(_, _, _)
DivLimbs(r, d, n) ==
    IF n = 0 THEN [q |-> <<>>, r |-> r]
    ELSE LET r1   == IF r = <<>> THEN r ELSE <<0>> \o r
             est  == ((Limb(r1, 5) * Base) + Limb(r1, 4)) \div d[4]
             q0   == IF est >= Base THEN Base - 1 ELSE est
             step == DivFix(r1, d, q0, BMulSmall(d, q0))
             rest == DivLimbs(step.r, d, n - 1)
         IN [q |-> Append(rest.q, step.q), r |-> rest.r]

(* f64 values: s is the sign 1 or -1; a finite value that is not 0 is s * m * 2^e
   with m odd; m = <<>> is 0 (e = 0), an infinity (e = 1) or NaN (e = 2) *)
F(s, m, e) == [s |-> s, m |-> m, e |-> e]

Zero(s) == F(s, <<>>, 0)

Inf(s) == F(s, <<>>, 1)

NaN == F(1, <<>>, 2)

IsNaN(a) == a.m = <<>> /\ a.e = 2

IsInf(a) == a.m = <<>> /\ a.e = 1

IsZero(a) == a.m = <<>> /\ a.e = 0

IsFinite(a) == a.m # <<>> \/ a.e = 0

\* the f64 s * m * 2^e for m and e that need no rounding
Canon(s, m, e) ==
    IF m = <<>> THEN Zero(s)
    ELSE IF BitLen(m) + e > MaxExp THEN Inf(s)
    ELSE IF (m[1] % 2) = 1 THEN F(s, m, e)
    ELSE LET tz == TrailingZeros(m) IN F(s, BShr(m, tz), e + tz)

\* the f64 nearest to s * (m + rest) * 2^e, ties to even; sticky tells 0 < rest < 1
\* and is only given with m of more than MantBits + 1 bits
Round(s, m, e, sticky) ==
    LET drop == Max(Max(BitLen(m) - MantBits, MinExp - e), 0)
    IN IF drop = 0 THEN Canon(s, m, e)
       ELSE LET kept == BShr(m, drop)
                up   == /\ Bit(m, drop - 1) = 1
                        /\ (sticky \/ LowNonzero(m, drop - 1) \/ (Limb(kept, 1) % 2) = 1)
            IN Canon(s, IF up THEN BAdd(kept, <<1>>) ELSE kept, e + drop)

R(i) == IF i < 0 THEN Canon(-1, BNat(-i), 0) ELSE Canon(1, BNat(i), 0)

FNeg(a) == IF IsNaN(a) THEN a ELSE [a EXCEPT !.s = -a.s]

\* x + y for finite x, y that are not 0, x.e >= y.e
AddFinite(x, y) ==
    LET near == x.e - y.e <= 120
        e    == IF near THEN y.e ELSE x.e - 60
        xm   == BShl(x.m, x.e - e)
    IN IF ~near
       THEN Round(x.s, IF x.s = y.s THEN xm ELSE BSub(xm, <<1>>), e, TRUE)
       ELSE IF x.s = y.s THEN Round(x.s, BAdd(xm, y.m), e, FALSE)
       ELSE LET c == BCmp(xm, y.m)
            IN IF c = 0 THEN Zero(1)
               ELSE IF c > 0 THEN Round(x.s, BSub(xm, y.m), e, FALSE)
               ELSE Round(y.s, BSub(y.m, xm), e, FALSE)

FAdd(a, b) ==
    IF IsNaN(a) \/ IsNaN(b) THEN NaN
    ELSE IF IsInf(a) THEN (IF IsInf(b) /\ b.s # a.s THEN NaN ELSE a)
    ELSE IF IsInf(b) THEN b
    ELSE IF IsZero(a) THEN (IF IsZero(b) /\ a.s # b.s THEN Zero(1) ELSE b)
    ELSE IF IsZero(b) THEN a
    ELSE IF a.e >= b.e THEN AddFinite(a, b) ELSE AddFinite(b, a)

FSub(a, b) == FAdd(a, FNeg(b))

FMul(a, b) ==
    IF IsNaN(a) \/ IsNaN(b) THEN NaN
    ELSE IF IsInf(a) \/ IsInf(b)
         THEN (IF IsZero(a) \/ IsZero(b) THEN NaN ELSE Inf(a.s * b.s))
    ELSE IF IsZero(a) \/ IsZero(b) THEN Zero(a.s * b.s)
    ELSE Round(a.s * b.s, BMul(a.m, b.m), a.e + b.e, FALSE)

\* a / b for finite a, b that are not 0
DivFinite(a, b) ==
    LET s  == a.s * b.s
        la == BitLen(a.m)
        lb == BitLen(b.m)
    IN IF b.m = <<1>> THEN Round(s, a.m, a.e - b.e, FALSE)
       ELSE IF Len(b.m) = 1
       THEN LET k  == MantBits + 3 + lb - la
                n  == BShl(a.m, k)
                qr == BDivSmallC(n, b.m[1], Len(n), 0)
            IN Round(s, BTrim(qr.q), a.e - b.e - k, qr.r # 0)
       ELSE LET r  == BShl(a.m, (4 * LimbBits) - la)
                d  == BShl(b.m, (4 * LimbBits) - lb)
                q0 == IF BCmp(r, d) >= 0 THEN 1 ELSE 0
                qr == DivLimbs(IF q0 = 1 THEN BSub(r, d) ELSE r, d, 4)
            IN Round(s, BTrim(Append(qr.q, q0)),
                     a.e - b.e + la - lb - (4 * LimbBits), qr.r # <<>>)

\* x / 0 is an infinity, 0 / 0 and inf / inf are NaN
FDiv(a, b) ==
    IF IsNaN(a) \/ IsNaN(b) THEN NaN
    ELSE IF IsInf(a) THEN (IF IsInf(b) THEN NaN ELSE Inf(a.s * b.s))
    ELSE IF IsInf(b) THEN Zero(a.s * b.s)
    ELSE IF IsZero(b) THEN (IF IsZero(a) THEN NaN ELSE Inf(a.s * b.s))
    ELSE IF IsZero(a) THEN Zero(a.s * b.s)
    ELSE DivFinite(a, b)

\* -1, 0, 1 as |a| is below, equal to, above |b|, for finite a, b that are not 0
CmpMag(a, b) ==
    LET ta == BitLen(a.m) + a.e
        tb == BitLen(b.m) + b.e
    IN IF a.e = b.e THEN BCmp(a.m, b.m)
       ELSE IF ta # tb THEN (IF ta < tb THEN -1 ELSE 1)
       ELSE IF a.e >= b.e THEN BCmp(BShl(a.m, a.e - b.e), b.m)
       ELSE BCmp(a.m, BShl(b.m, b.e - a.e))

\* comparisons with NaN are false; 0.0 and -0.0 are equal
FEq(a, b) == ~IsNaN(a) /\ ~IsNaN(b) /\ (a = b \/ (IsZero(a) /\ IsZero(b)))

FLt(a, b) ==
    /\ ~IsNaN(a) /\ ~IsNaN(b) /\ ~FEq(a, b)
    /\ IF IsZero(a) THEN b.s = 1
       ELSE IF IsZero(b) THEN a.s = -1
       ELSE IF a.s # b.s THEN a.s = -1
       ELSE IF IsInf(a) THEN a.s = -1
       ELSE IF IsInf(b) THEN b.s = 1
       ELSE CmpMag(a, b) = -a.s

FLe(a, b) == FEq(a, b) \/ FLt(a, b)

\* f64::min / f64::max: a NaN operand is ignored
FMin(a, b) == IF IsNaN(a) THEN b ELSE IF IsNaN(b) THEN a ELSE IF FLt(b, a) THEN b ELSE a

FMax(a, b) == IF IsNaN(a) THEN b ELSE IF IsNaN(b) THEN a ELSE IF FLt(a, b) THEN b ELSE a

(***************************************************************************)
(* Axis aligned bounding boxes                                              *)
(***************************************************************************)
AABB(mins, maxs) == [mins |-> mins, maxs |-> maxs]

Box(x0, y0, x1, y1) == AABB(<<R(x0), R(y0)>>, <<R(x1), R(y1)>>)

Vec(x, y) == <<R(x), R(y)>>

\* self.contains(other)
Contains(a, b) ==
    \A i \in 1..2 : FLe(a.mins[i], b.mins[i]) /\ FLe(b.maxs[i], a.maxs[i])

\* self.intersects(other)
Intersects(a, b) ==
    \A i \in 1..2 : FLe(a.mins[i], b.maxs[i]) /\ FLe(b.mins[i], a.maxs[i])

Merged(a, b) ==
    AABB([i \in 1..2 |-> FMin(a.mins[i], b.mins[i])],
         [i \in 1..2 |-> FMax(a.maxs[i], b.maxs[i])])

aabb_translate(b, offset) ==
    AABB([i \in 1..2 |-> FAdd(b.mins[i], offset[i])],
         [i \in 1..2 |-> FAdd(b.maxs[i], offset[i])])

\* Option<T>
None == <<>>

Some(x) == <<x>>

(***************************************************************************)
(* Strokes: the part of StrokeStyle the selection component uses            *)
(***************************************************************************)
StrokeKinds == {"MarkerStroke", "BrushStroke", "ShapeStroke", "VectorImage", "BitmapImage"}

Stroke(kind, bounds, hitbox) == [kind |-> kind, bounds |-> bounds, hitbox |-> hitbox]

\* stroke.translate(offset): the bounds and every hitbox element are shifted
StrokeTranslate(stroke, offset) ==
    [stroke EXCEPT !.bounds = aabb_translate(@, offset),
                   !.hitbox = [i \in DOMAIN @ |-> aabb_translate(@[i], offset)]]

\* the box b of a geometry with bounds from, after the geometry is fitted into to
FitBox(b, from, to) ==
    LET scale == [i \in 1..2 |-> FDiv(FSub(to.maxs[i], to.mins[i]),
                                      FSub(from.maxs[i], from.mins[i]))]
        mins  == [i \in 1..2 |-> FAdd(FMul(FSub(b.mins[i], from.mins[i]), scale[i]),
                                      to.mins[i])]
    IN AABB(mins,
            [i \in 1..2 |-> FAdd(mins[i], FMul(FSub(b.maxs[i], b.mins[i]), scale[i]))])

\* stroke.resize(new_bounds): the geometry is fitted into new_bounds
StrokeResize(stroke, new_bounds) ==
    [stroke EXCEPT !.bounds = new_bounds,
                   !.hitbox = [i \in DOMAIN @ |-> FitBox(@[i], stroke.bounds, new_bounds)]]

(***************************************************************************)
(* StrokesState: a record st of the fields the selection component reads    *)
(* and writes.  A component map is a function whose domain is the set of    *)
(* keys that have the component.                                            *)
(***************************************************************************)
Keys(st) == DOMAIN st.strokes

can_select(st, key) == key \in DOMAIN st.selection_components

selected(st, key) ==
    IF key \in DOMAIN st.selection_components
    THEN Some(st.selection_components[key])
    ELSE None

selection_keys(st) ==
    {key \in DOMAIN st.selection_components : st.selection_components[key]}

selection_len(st) == Cardinality(selection_keys(st))

\* the keys of a set in ascending order (the iteration order of the slot maps)
RECURSIVE KeySeq(_)
KeySeq(keys) ==
    IF keys = {} THEN <<>>
    ELSE LET k == CHOOSE x \in keys : \A y \in keys : x <= y
         IN <<k>> \o KeySeq(keys \ {k})

RECURSIVE MergeAll(_, _, _)
MergeAll(st, acc, ks) ==
    IF ks = <<>> THEN acc
    ELSE MergeAll(st, Merged(acc, st.strokes[Head(ks)].bounds), Tail(ks))

\* the sequences that hold every element of the set s exactly once
RECURSIVE Perms(_)
Perms(s) ==
    IF s = {} THEN {<<>>}
    ELSE UNION {{<<x>> \o p : p \in Perms(s \ {x})} : x \in s}

\* the bounds enclosing the strokes of the given keys, None for no keys.  The keys
\* come from selection_keys (lines 62-74), whose parallel scan collects them in any
\* order, and the merge keeps the first of two coordinates that compare equal
\* (0.0 and -0.0): the values are those of every order of the keys
gen_bounds(st, keys) ==
    LET present == keys \cap DOMAIN st.strokes
    IN IF present = {} THEN {None}
       ELSE {Some(MergeAll(st, st.strokes[Head(ks)].bounds, Tail(ks))) :
                ks \in Perms(present)}

\* the states update_selection_bounds can leave
update_selection_bounds(st) ==
    {[st EXCEPT !.selection_bounds = b] : b \in gen_bounds(st, selection_keys(st))}

\* set_selected inserting the component where the key has none
set_selected_insert(st, key, value) ==
    update_selection_bounds(
        [st EXCEPT !.selection_components = (key :> value) @@ @])

set_selected(st, key, value) ==
    IF key \in DOMAIN st.selection_components
    THEN update_selection_bounds([st EXCEPT !.selection_components[key] = value])
    ELSE {st}

\* deselect with the cached bounds left as they were
deselect_keeps_bounds(st) ==
    [st EXCEPT !.selection_components = [key \in DOMAIN @ |-> FALSE]]

deselect(st) ==
    [st EXCEPT !.selection_components = [key \in DOMAIN @ |-> FALSE],
               !.selection_bounds = None]

\* the fixed offset of a duplicate
DupOffset == 20

\* the keys duplicate_selection gives to n inserted strokes: the next free slots
DupKeys(st, n) ==
    LET top == IF Keys(st) = {} THEN 0
               ELSE CHOOSE x \in Keys(st) : \A y \in Keys(st) : y <= x
    IN [i \in 1..n |-> top + i]

\* duplicate_selection placing each duplicate onto its original
duplicate_selection_in_place(st) ==
    LET orig   == KeySeq(selection_keys(st))
        dup    == DupKeys(st, Len(orig))
        dups   == {dup[i] : i \in 1..Len(orig)}
        src(k) == orig[CHOOSE i \in 1..Len(orig) : dup[i] = k]
        st1 == [st EXCEPT
                 !.selection_components =
                     [k \in DOMAIN @ \cup dups |-> k \in dups],
                 !.render_components =
                     [k \in DOMAIN @ \cup dups |-> IF k \in dups THEN TRUE ELSE @[k]],
                 !.trash_components =
                     [k \in DOMAIN @ \cup dups |-> IF k \in dups THEN FALSE ELSE @[k]],
                 !.strokes =
                     [k \in DOMAIN @ \cup dups |-> IF k \in dups THEN @[src(k)] ELSE @[k]]]
    IN update_selection_bounds(st1)

duplicate_selection(st) ==
    LET offset == Vec(DupOffset, DupOffset)
        orig   == KeySeq(selection_keys(st))
        dup    == DupKeys(st, Len(orig))
        dups   == {dup[i] : i \in 1..Len(orig)}
        src(k) == orig[CHOOSE i \in 1..Len(orig) : dup[i] = k]
        \* the originals are deselected and their strokes cloned, then every
        \* duplicate gets its components and is translated
        st1 == [st EXCEPT
                 !.selection_components =
                     [k \in DOMAIN @ \cup dups |-> k \in dups],
                 !.render_components =
                     [k \in DOMAIN @ \cup dups |-> IF k \in dups THEN TRUE ELSE @[k]],
                 !.trash_components =
                     [k \in DOMAIN @ \cup dups |-> IF k \in dups THEN FALSE ELSE @[k]],
                 !.strokes =
                     [k \in DOMAIN @ \cup dups |->
                         IF k \in dups THEN StrokeTranslate(@[src(k)], offset) ELSE @[k]]]
    IN update_selection_bounds(st1)

\* lines 172-179: the stroke is skipped as hidden
IsHidden(st, key) ==
    /\ key \in DOMAIN st.render_components
    /\ key \in DOMAIN st.trash_components
    /\ (~st.render_components[key] \/ st.trash_components[key])

\* the scan without the viewport skip
OutsideViewport_never(stroke, viewport) == FALSE

\* lines 181-185: the stroke is skipped as outside of the viewport
OutsideViewport(stroke, viewport) ==
    viewport # None /\ ~Intersects(viewport[1], stroke.bounds)

\* the match without the shortcut for free-form strokes inside of the selector
HitBySelector_hitbox_only(stroke, selector_bounds) ==
    IF stroke.kind \in {"MarkerStroke", "BrushStroke"}
    THEN /\ Intersects(selector_bounds, stroke.bounds)
         /\ \A i \in DOMAIN stroke.hitbox : Contains(selector_bounds, stroke.hitbox[i])
    ELSE Contains(selector_bounds, stroke.bounds)

\* the match with one contained hitbox element being enough
HitBySelector_any_hitbox(stroke, selector_bounds) ==
    IF stroke.kind \in {"MarkerStroke", "BrushStroke"}
    THEN \/ Contains(selector_bounds, stroke.bounds)
         \/ /\ Intersects(selector_bounds, stroke.bounds)
            /\ \E i \in DOMAIN stroke.hitbox : Contains(selector_bounds, stroke.hitbox[i])
    ELSE Contains(selector_bounds, stroke.bounds)

\* the match with the strokes without hitbox selected on intersection
HitBySelector_intersecting(stroke, selector_bounds) ==
    IF stroke.kind \in {"MarkerStroke", "BrushStroke"}
    THEN \/ Contains(selector_bounds, stroke.bounds)
         \/ /\ Intersects(selector_bounds, stroke.bounds)
            /\ \A i \in DOMAIN stroke.hitbox : Contains(selector_bounds, stroke.hitbox[i])
    ELSE Intersects(selector_bounds, stroke.bounds)

\* lines 190-230: the match on the stroke kind, TRUE when selected is set to true
HitBySelector(stroke, selector_bounds) ==
    CASE stroke.kind = "MarkerStroke" ->
            \/ Contains(selector_bounds, stroke.bounds)
            \/ /\ Intersects(selector_bounds, stroke.bounds)
               /\ \A i \in DOMAIN stroke.hitbox : Contains(selector_bounds, stroke.hitbox[i])
      [] stroke.kind = "BrushStroke" ->
            \/ Contains(selector_bounds, stroke.bounds)
            \/ /\ Intersects(selector_bounds, stroke.bounds)
               /\ \A i \in DOMAIN stroke.hitbox : Contains(selector_bounds, stroke.hitbox[i])
      [] stroke.kind = "ShapeStroke" -> Contains(selector_bounds, stroke.bounds)
      [] stroke.kind = "VectorImage" -> Contains(selector_bounds, stroke.bounds)
      [] stroke.kind = "BitmapImage" -> Contains(selector_bounds, stroke.bounds)

\* lines 170-232: the scan over the strokes
ScanStrokes(st, selector_bounds, viewport) ==
    [st EXCEPT !.selection_components =
        [key \in DOMAIN @ |->
            IF key \notin DOMAIN st.strokes THEN @[key]
            ELSE IF IsHidden(st, key) THEN @[key]
            ELSE IF OutsideViewport(st.strokes[key], viewport) THEN @[key]
            ELSE HitBySelector(st.strokes[key], selector_bounds)]]

\* the selection counting as changed whenever it is not empty
SelectionChanged_nonempty(len_prev, len_now) == len_now # 0

\* only a grown selection counting as changed
SelectionChanged_grown(len_prev, len_now) == len_now > len_prev

\* lines 234-240: whether the selection counts as changed
SelectionChanged(len_prev, len_now) == len_now # len_prev

\* the new states with the returned flag; selector is the Option selector.bounds
update_selection_for_selector(st, selector, viewport) ==
    LET selection_len_prev == selection_len(st)
    IN IF selector = None THEN {[st |-> st, ret |-> FALSE]}
       ELSE LET scanned == ScanStrokes(st, selector[1], viewport)
            IN IF SelectionChanged(selection_len_prev, selection_len(scanned))
               THEN {[st |-> u, ret |-> TRUE] : u \in update_selection_bounds(scanned)}
               ELSE {[st |-> scanned, ret |-> FALSE]}

\* the new bounds without the term that puts the origin of the selection back
calc_new_stroke_bounds_no_origin(stroke, selection_bounds, new_bounds) ==
    LET offset == [i \in 1..2 |-> FSub(new_bounds.mins[i], selection_bounds.mins[i])]
        scalevector ==
            [i \in 1..2 |-> FDiv(FSub(new_bounds.maxs[i], new_bounds.mins[i]),
                                 FSub(selection_bounds.maxs[i], selection_bounds.mins[i]))]
        mins == [i \in 1..2 |->
                    FAdd(FMul(FSub(stroke.bounds.mins[i], selection_bounds.mins[i]),
                              scalevector[i]),
                         offset[i])]
    IN AABB(mins,
            [i \in 1..2 |->
                FAdd(mins[i], FMul(FSub(stroke.bounds.maxs[i], stroke.bounds.mins[i]),
                                   scalevector[i]))])

\* the new bounds with the scale of the x axis used for both axes
calc_new_stroke_bounds_uniform(stroke, selection_bounds, new_bounds) ==
    LET offset == [i \in 1..2 |-> FSub(new_bounds.mins[i], selection_bounds.mins[i])]
        scale  == FDiv(FSub(new_bounds.maxs[1], new_bounds.mins[1]),
                       FSub(selection_bounds.maxs[1], selection_bounds.mins[1]))
        mins == [i \in 1..2 |->
                    FAdd(FAdd(FMul(FSub(stroke.bounds.mins[i], selection_bounds.mins[i]),
                                   scale),
                              selection_bounds.mins[i]),
                         offset[i])]
    IN AABB(mins,
            [i \in 1..2 |->
                FAdd(mins[i], FMul(FSub(stroke.bounds.maxs[i], stroke.bounds.mins[i]),
                                   scale))])

\* lines 245-282: the closure calc_new_stroke_bounds
calc_new_stroke_bounds(stroke, selection_bounds, new_bounds) ==
    LET offset == [i \in 1..2 |-> FSub(new_bounds.mins[i], selection_bounds.mins[i])]
        scalevector ==
            [i \in 1..2 |-> FDiv(FSub(new_bounds.maxs[i], new_bounds.mins[i]),
                                 FSub(selection_bounds.maxs[i], selection_bounds.mins[i]))]
        mins == [i \in 1..2 |->
                    FAdd(FAdd(FMul(FSub(stroke.bounds.mins[i], selection_bounds.mins[i]),
                                   scalevector[i]),
                              selection_bounds.mins[i]),
                         offset[i])]
    IN AABB(mins,
            [i \in 1..2 |->
                FAdd(mins[i], FMul(FSub(stroke.bounds.maxs[i], stroke.bounds.mins[i]),
                                   scalevector[i]))])

resize_selection(st, new_bounds) ==
    IF st.selection_bounds = None THEN st
    ELSE [st EXCEPT
            !.strokes =
                [key \in DOMAIN @ |->
                    IF key \in DOMAIN st.selection_components /\ st.selection_components[key]
                    THEN StrokeResize(@[key], calc_new_stroke_bounds(@[key],
                                          st.selection_bounds[1], new_bounds))
                    ELSE @[key]],
            !.selection_bounds = Some(new_bounds)]

\* translate_selection moving every stroke, selected or not
translate_selection_all(st, offset) ==
    [st EXCEPT
        !.strokes = [key \in DOMAIN @ |-> StrokeTranslate(@[key], offset)],
        !.selection_bounds =
            IF @ # None THEN Some(aabb_translate(@[1], offset)) ELSE None]

translate_selection(st, offset) ==
    [st EXCEPT
        !.strokes =
            [key \in DOMAIN @ |->
                IF key \in DOMAIN st.selection_components /\ st.selection_components[key]
                THEN StrokeTranslate(@[key], offset)
                ELSE @[key]],
        !.selection_bounds =
            IF @ # None THEN Some(aabb_translate(@[1], offset)) ELSE None]

\* lines 81-94: the keys the scan over chrono_components collects, in the order in
\* which the parallel scan visits them
CollectSelected(st, order) ==
    SelectSeq(order,
              LAMBDA key :
                  /\ key \in DOMAIN st.trash_components
                  /\ key \in DOMAIN st.selection_components
                  /\ ~st.trash_components[key]
                  /\ st.selection_components[key])

\* line 95, sort_unstable_by on t: every arrangement of the collected keys in
\* nondecreasing t, entries of equal t in any order
SortedByT(st, collected) ==
    {p \in Perms({collected[i] : i \in DOMAIN collected}) :
        \A i, j \in DOMAIN p :
            i < j => st.chrono_components[p[i]] <= st.chrono_components[p[j]]}

\* the last collected key, without the sort
last_selection_key_unsorted(st, order) ==
    LET collected == CollectSelected(st, order)
    IN IF collected = <<>> THEN {None} ELSE {Some(collected[Len(collected)])}

\* the values last_selection_key can return when the scan visits chrono_components
\* in the given order
last_selection_key(st, order) ==
    LET collected == CollectSelected(st, order)
    IN IF collected = <<>> THEN {None}
       ELSE {Some(sorted[Len(sorted)]) : sorted \in SortedByT(st, collected)}

\* the outcome of export_selection_as_svg: the returned result, the keys of the
\* strokes whose fragment is in the data, the destination stream when the call has
\* returned ("unopened", "open" or "closed"), how much of the data was written
\* ("none", "part" or "all") and whether close was called.
\* broken is the set of strokes whose gen_svg_data fails; open_ok tells whether
\* file.replace succeeds, write whether write fails ("fail"), returns Ok after a
\* part of the data ("part") or after all of it ("all"), close_ok whether close
\* succeeds.  When write fails the function returns at line 381 and close (line
\* 382) is not called: output_stream goes out of scope there, and drop_closes
\* tells whether the destructor of the handle, which is not part of the source,
\* closes the stream
export_selection_as_svg(st, broken, open_ok, write, close_ok, drop_closes) ==
    IF st.selection_bounds = None
    THEN [ok |-> TRUE, data |-> {}, stream |-> "unopened", written |-> "none",
          close_called |-> FALSE]
    ELSE LET data == {key \in selection_keys(st) :
                         key \in DOMAIN st.strokes /\ key \notin broken}
         IN IF ~open_ok
            THEN [ok |-> FALSE, data |-> data, stream |-> "unopened",
                  written |-> "none", close_called |-> FALSE]
            ELSE IF write = "fail"
            THEN [ok |-> FALSE, data |-> data,
                  stream |-> IF drop_closes THEN "closed" ELSE "open",
                  written |-> "none", close_called |-> FALSE]
            ELSE [ok |-> close_ok, data |-> data, stream |-> "closed",
                  written |-> write, close_called |-> TRUE]

(***************************************************************************)
(* The state machine                                                        *)
(***************************************************************************)
VARIABLES
    strokes,                \* StrokesState.strokes: key -> stroke
    selection_components,   \* key -> selected
    render_components,      \* key -> render
    trash_components,       \* key -> trashed
    chrono_components,      \* key -> t
    selection_bounds,       \* Option<AABB>, the cached bounds of the selection
    last,                   \* the last call: its name, arguments and return value
    ntransforms             \* number of translate, resize and duplicate calls so far

vars == <<strokes, selection_components, render_components, trash_components,
          chrono_components, selection_bounds, last, ntransforms>>

State ==
    [strokes |-> strokes,
     selection_components |-> selection_components,
     render_components |-> render_components,
     trash_components |-> trash_components,
     chrono_components |-> chrono_components,
     selection_bounds |-> selection_bounds]

Becomes(st) ==
    /\ strokes' = st.strokes
    /\ selection_components' = st.selection_components
    /\ render_components' = st.render_components
    /\ trash_components' = st.trash_components
    /\ chrono_components' = st.chrono_components
    /\ selection_bounds' = st.selection_bounds

\* a call record; prev is the selection_components map a deselect or selector call
\* started from, out what a query returned
Call(op, key, selector, viewport, ret) ==
    [op |-> op, key |-> key, selector |-> selector, viewport |-> viewport, ret |-> ret,
     prev |-> IF op \in {"deselect", "update_selection_for_selector"}
              THEN selection_components ELSE <<>>,
     out |-> <<>>]

Query(op, out) == [Call(op, 0, None, None, FALSE) EXCEPT !.out = out]

\* the inputs explored
B1 == Box(10, 10, 20, 20)

B2 == Box(90, 90, 150, 150)

S1 == Box(0, 0, 100, 100)

S2 == Box(80, 80, 160, 160)

V1 == Box(0, 0, 50, 50)

Selectors == {None, Some(S1), Some(S2)}

Viewports == {None, Some(V1)}

Offsets == {Vec(10, -10)}

ResizeBounds == {Box(0, 0, 100, 50), Box(10, 10, 10, 30)}

\* the sets of strokes whose gen_svg_data fails
BrokenSets == {{}, {2}}

\* what output_stream.write can do
WriteOutcomes == {"fail", "part", "all"}

\* a key that names no stroke
InvalidKey == 0

\* a component map over the keys ks: each key has the component or lacks it
PartialMaps(ks, values) == UNION {[d -> values] : d \in SUBSET ks}

HasHitbox(kind) == kind \in {"MarkerStroke", "BrushStroke"}

\* hitboxes of the second stroke: inside S1 and S2; partly outside S1; inside S1
\* and sticking out of S2
Hitboxes2 == {<<Box(90, 90, 100, 100)>>,
              <<Box(90, 90, 100, 100), Box(100, 100, 150, 150)>>,
              <<Box(70, 70, 100, 100)>>}

\* two strokes, the first inside S1, the second sticking out of S1
InitStrokes(k1, k2, h2) ==
    (1 :> Stroke(k1, B1, IF HasHitbox(k1) THEN <<B1>> ELSE <<>>))
    @@ (2 :> Stroke(k2, B2, IF HasHitbox(k2) THEN h2 ELSE <<>>))

\* two flat boxes that differ only in the signs of their zero coordinates
Z1 == AABB(<<Zero(-1), Zero(1)>>, <<R(5), Zero(-1)>>)

Z2 == AABB(<<Zero(1), Zero(-1)>>, <<R(5), Zero(1)>>)

\* the chrono components of two strokes created one after the other
InOrder == (1 :> 1) @@ (2 :> 2)

\* other chrono components: equal t, the first stroke newer, the first stroke or
\* both without the component
ChronoLayouts == {(1 :> 2) @@ (2 :> 2), (1 :> 3) @@ (2 :> 2), (2 :> 2), <<>>}

InitRest ==
    /\ selection_bounds = None
    /\ last = Call("new", 0, None, None, FALSE)
    /\ ntransforms = 0

\* both strokes of one kind with all their components; the first may be trashed
Init ==
    /\ \E kind \in {"BrushStroke", "ShapeStroke"} :
          strokes = InitStrokes(kind, kind, <<Box(90, 90, 100, 100),
                                              Box(100, 100, 150, 150)>>)
    /\ selection_components = (1 :> FALSE) @@ (2 :> FALSE)
    /\ render_components = (1 :> TRUE) @@ (2 :> TRUE)
    /\ \E t \in BOOLEAN : trash_components = (1 :> t) @@ (2 :> FALSE)
    /\ chrono_components = InOrder
    /\ InitRest

\* strokes of any two kinds, the first with any of its components; or two brush
\* strokes with any of the chrono layouts; or two brush strokes on the boxes Z1, Z2
InitSelector ==
    /\ \/ /\ \E k1, k2 \in StrokeKinds : \E h2 \in Hitboxes2 :
                strokes = InitStrokes(k1, k2, h2)
          /\ \/ /\ selection_components = (1 :> FALSE) @@ (2 :> FALSE)
                /\ \E r \in PartialMaps({1}, BOOLEAN) :
                      render_components = r @@ (2 :> TRUE)
                /\ \E t \in PartialMaps({1}, BOOLEAN) :
                      trash_components = t @@ (2 :> FALSE)
             \/ /\ selection_components = (2 :> FALSE)
                /\ render_components = (1 :> TRUE) @@ (2 :> TRUE)
                /\ trash_components = (1 :> FALSE) @@ (2 :> FALSE)
          /\ chrono_components = InOrder
       \/ /\ strokes = InitStrokes("BrushStroke", "BrushStroke",
                                   <<Box(90, 90, 100, 100)>>)
          /\ selection_components = (1 :> FALSE) @@ (2 :> FALSE)
          /\ render_components = (1 :> TRUE) @@ (2 :> TRUE)
          /\ \E t \in BOOLEAN : trash_components = (1 :> t) @@ (2 :> FALSE)
          /\ \E c \in ChronoLayouts : chrono_components = c
       \/ /\ strokes = (1 :> Stroke("BrushStroke", Z1, <<Z1>>))
                        @@ (2 :> Stroke("BrushStroke", Z2, <<Z2>>))
          /\ selection_components = (1 :> FALSE) @@ (2 :> FALSE)
          /\ render_components = (1 :> TRUE) @@ (2 :> TRUE)
          /\ trash_components = (1 :> FALSE) @@ (2 :> FALSE)
          /\ chrono_components = InOrder
    /\ InitRest

SetSelected ==
    \E key \in Keys(State) \cup {InvalidKey}, value \in BOOLEAN :
        \E r \in set_selected(State, key, value) :
            /\ Becomes(r)
            /\ last' = Call("set_selected", key, None, None, FALSE)
            /\ UNCHANGED ntransforms

UpdateSelectionBounds ==
    \E r \in update_selection_bounds(State) :
        /\ Becomes(r)
        /\ last' = Call("update_selection_bounds", 0, None, None, FALSE)
        /\ UNCHANGED ntransforms

Deselect ==
    /\ Becomes(deselect(State))
    /\ last' = Call("deselect", 0, None, None, FALSE)
    /\ UNCHANGED ntransforms

DuplicateSelection ==
    /\ ntransforms < MaxTransforms
    /\ Cardinality(Keys(State)) + selection_len(State) <= MaxStrokes
    /\ \E r \in duplicate_selection(State) : Becomes(r)
    /\ last' = Call("duplicate_selection", 0, None, None, FALSE)
    /\ ntransforms' = ntransforms + 1

UpdateSelectionForSelector ==
    \E selector \in Selectors, viewport \in Viewports :
        \E r \in update_selection_for_selector(State, selector, viewport) :
            /\ Becomes(r.st)
            /\ last' = Call("update_selection_for_selector", 0, selector, viewport, r.ret)
            /\ UNCHANGED ntransforms

ResizeSelection ==
    \E new_bounds \in ResizeBounds :
        /\ ntransforms < MaxTransforms
        /\ Becomes(resize_selection(State, new_bounds))
        /\ last' = Call("resize_selection", 0, None, None, FALSE)
        /\ ntransforms' = ntransforms + 1

TranslateSelection ==
    \E offset \in Offsets :
        /\ ntransforms < MaxTransforms
        /\ Becomes(translate_selection(State, offset))
        /\ last' = Call("translate_selection", 0, None, None, FALSE)
        /\ ntransforms' = ntransforms + 1

LastSelectionKey ==
    \E order \in Perms(DOMAIN chrono_components) :
        \E result \in last_selection_key(State, order) :
            /\ last' = Query("last_selection_key", result)
            /\ UNCHANGED <<strokes, selection_components, render_components,
                           trash_components, chrono_components, selection_bounds,
                           ntransforms>>

ExportSelectionAsSvg ==
    \E broken \in BrokenSets, open_ok, close_ok, drop_closes \in BOOLEAN,
       write \in WriteOutcomes :
        /\ last' = Query("export_selection_as_svg",
                         export_selection_as_svg(State, broken, open_ok, write, close_ok,
                                                 drop_closes))
        /\ UNCHANGED <<strokes, selection_components, render_components,
                       trash_components, chrono_components, selection_bounds,
                       ntransforms>>

Next ==
    \/ SetSelected
    \/ UpdateSelectionBounds
    \/ Deselect
    \/ DuplicateSelection
    \/ UpdateSelectionForSelector
    \/ ResizeSelection
    \/ TranslateSelection

Spec == Init /\ [][Next]_vars

\* the selection calls alone, from every component layout
NextSelector ==
    \/ SetSelected
    \/ UpdateSelectionBounds
    \/ Deselect
    \/ UpdateSelectionForSelector
    \/ LastSelectionKey
    \/ ExportSelectionAsSvg

SelectorSpec == InitSelector /\ [][NextSelector]_vars

\* a selection that set_selected made is resized and translated
NextTransform ==
    \/ SetSelected
    \/ UpdateSelectionBounds
    \/ Deselect
    \/ ResizeSelection
    \/ TranslateSelection

TransformSpec == Init /\ [][NextTransform]_vars

\* a selection that set_selected made is resized
NextResize ==
    \/ SetSelected
    \/ UpdateSelectionBounds
    \/ Deselect
    \/ ResizeSelection

ResizeSpec == Init /\ [][NextResize]_vars

\* a selection that set_selected made is duplicated
NextDuplicate ==
    \/ SetSelected
    \/ UpdateSelectionBounds
    \/ Deselect
    \/ DuplicateSelection

DuplicateSpec == Init /\ [][NextDuplicate]_vars

(***************************************************************************)
(* Properties                                                               *)
(***************************************************************************)
IsTrashed(st, key) == key \in DOMAIN st.trash_components /\ st.trash_components[key]

IsInvisible(st, key) == key \in DOMAIN st.render_components /\ ~st.render_components[key]

SelectedNotTrashed(st) == {key \in selection_keys(st) : ~IsTrashed(st, key)}

\* the least box enclosing the bounds of the strokes of keys, None for no keys
BoundsUnion(st, keys) ==
    IF keys = {} THEN None
    ELSE LET lo(i) == CHOOSE v \in {st.strokes[k].bounds.mins[i] : k \in keys} :
                         \A k \in keys : FLe(v, st.strokes[k].bounds.mins[i])
             hi(i) == CHOOSE v \in {st.strokes[k].bounds.maxs[i] : k \in keys} :
                         \A k \in keys : FLe(st.strokes[k].bounds.maxs[i], v)
         IN Some(AABB(<<lo(1), lo(2)>>, <<hi(1), hi(2)>>))

AllFinite(st) ==
    \A k \in Keys(st) : \A i \in 1..2 :
        IsFinite(st.strokes[k].bounds.mins[i]) /\ IsFinite(st.strokes[k].bounds.maxs[i])

IsSelectorCall == last.op = "update_selection_for_selector"

NumSelected(components) == Cardinality({k \in DOMAIN components : components[k]})

\* the strokes the scan of the last selector call did not skip and could select
Candidate(key, viewport) ==
    /\ key \in Keys(State) \cap DOMAIN selection_components
    /\ ~IsHidden(State, key)
    /\ ~OutsideViewport(strokes[key], viewport)

\* C1: the cached selection_bounds equals the union of the bounds of the selected,
\* not trashed strokes, in particular after a selector call that swaps the selected
\* strokes (stated for the states in which no selected stroke is trashed and every
\* coordinate is finite, where the union is that of all selected strokes)
C1_CacheIsUnion ==
    (AllFinite(State) /\ \A k \in selection_keys(State) : ~IsTrashed(State, k))
        => selection_bounds = BoundsUnion(State, SelectedNotTrashed(State))

\* C2: selection_bounds is None exactly when no stroke is selected and not trashed
C2_NoneIffEmpty ==
    (selection_bounds = None) <=> (SelectedNotTrashed(State) = {})

\* C3: deselect, called in any state, leaves no stroke selected and the cached
\* bounds None
C3_DeselectClears ==
    /\ LET d == deselect(State)
       IN selection_keys(d) = {} /\ d.selection_bounds = None
    /\ last.op = "deselect" => selection_keys(State) = {} /\ selection_bounds = None

C3_Witness ==
    /\ last.op = "deselect"
    /\ NumSelected(last.prev) > 0
    /\ selection_keys(State) = {}
    /\ selection_bounds = None

\* C4: a second selector call with the same selector and viewport returns false and
\* leaves every selected flag as the first call left it
C4_Idempotent ==
    \A selector \in Selectors, viewport \in Viewports :
        \A first \in update_selection_for_selector(State, selector, viewport) :
            \A second \in update_selection_for_selector(first.st, selector, viewport) :
                /\ second.ret = FALSE
                /\ second.st.selection_components = first.st.selection_components

C4_Witness ==
    /\ IsSelectorCall
    /\ last.ret
    /\ last.prev # selection_components
    /\ \A second \in update_selection_for_selector(State, last.selector, last.viewport) :
          second.ret = FALSE /\ second.st.selection_components = selection_components

IsFreeForm(stroke) == stroke.kind \in {"MarkerStroke", "BrushStroke"}

IsSelected(key) == key \in DOMAIN selection_components /\ selection_components[key]

\* C5 as stated: after a selector call every stroke whose bounds are inside of the
\* selector bounds is selected
C5_ContainedIsSelected ==
    (IsSelectorCall /\ last.selector # None) =>
        \A key \in Keys(State) :
            Contains(last.selector[1], strokes[key].bounds) => IsSelected(key)

\* C5 amended: after a selector call every stroke that has a SelectionComponent, was
\* not skipped as hidden or trashed nor as outside of the viewport, and whose bounds
\* are inside of the selector bounds is selected, whatever its kind and hitbox
C5_ContainedCandidateIsSelected ==
    (IsSelectorCall /\ last.selector # None) =>
        \A key \in Keys(State) :
            (Candidate(key, last.viewport) /\ Contains(last.selector[1], strokes[key].bounds))
                => IsSelected(key)

\* a free-form stroke inside of the selector with a hitbox element sticking out of it
C5_Witness ==
    /\ IsSelectorCall /\ last.selector # None
    /\ \E key \in Keys(State) :
        /\ Candidate(key, last.viewport)
        /\ IsFreeForm(strokes[key])
        /\ Contains(last.selector[1], strokes[key].bounds)
        /\ \E i \in DOMAIN strokes[key].hitbox :
              ~Contains(last.selector[1], strokes[key].hitbox[i])
        /\ ~last.prev[key]
        /\ IsSelected(key)

\* the strokes of the intersection law: free-form, intersecting the selector bounds
\* without being inside of them, with a hitbox element that is not inside of them
SticksOut(stroke, selector_bounds) ==
    /\ IsFreeForm(stroke)
    /\ Intersects(selector_bounds, stroke.bounds)
    /\ ~Contains(selector_bounds, stroke.bounds)
    /\ \E i \in DOMAIN stroke.hitbox : ~Contains(selector_bounds, stroke.hitbox[i])

\* C6 as stated: after a selector call no such stroke is selected
C6_StickingOutNotSelected ==
    (IsSelectorCall /\ last.selector # None) =>
        \A key \in Keys(State) :
            SticksOut(strokes[key], last.selector[1]) => ~IsSelected(key)

\* C6 amended: after a selector call no such stroke that the scan did not skip (as
\* hidden or trashed, or as outside of the viewport) is selected
C6_StickingOutCandidateNotSelected ==
    (IsSelectorCall /\ last.selector # None) =>
        \A key \in Keys(State) :
            (Candidate(key, last.viewport) /\ SticksOut(strokes[key], last.selector[1]))
                => ~IsSelected(key)

\* such a stroke, selected before the call and deselected by it
C6_Witness ==
    /\ IsSelectorCall /\ last.selector # None
    /\ \E key \in Keys(State) :
        /\ Candidate(key, last.viewport)
        /\ SticksOut(strokes[key], last.selector[1])
        /\ last.prev[key]
        /\ ~IsSelected(key)

\* C7: a candidate stroke of a kind without hitbox is selected by a selector call
\* exactly when its bounds are inside of the selector bounds; the selector
\* [(0,0),(100,100)] over [(10,10),(20,20)] and [(90,90),(150,150)], nothing being
\* selected before, selects the first only and the cached bounds become its bounds
C7_NoHitboxContainment ==
    /\ (IsSelectorCall /\ last.selector # None) =>
          \A key \in Keys(State) :
              (Candidate(key, last.viewport) /\ ~IsFreeForm(strokes[key])) =>
                  (IsSelected(key) <=> Contains(last.selector[1], strokes[key].bounds))
    /\ ( /\ IsSelectorCall
         /\ last.selector = Some(Box(0, 0, 100, 100))
         /\ NumSelected(last.prev) = 0
         /\ Keys(State) = {1, 2}
         /\ strokes[1].bounds = Box(10, 10, 20, 20)
         /\ strokes[2].bounds = Box(90, 90, 150, 150)
         /\ \A key \in {1, 2} : Candidate(key, last.viewport) /\ ~IsFreeForm(strokes[key]) )
       => ( /\ selection_keys(State) = {1}
            /\ selection_bounds = Some(Box(10, 10, 20, 20))
            /\ last.ret )

C7_Witness ==
    /\ IsSelectorCall
    /\ last.selector = Some(Box(0, 0, 100, 100))
    /\ NumSelected(last.prev) = 0
    /\ strokes[1].bounds = Box(10, 10, 20, 20)
    /\ strokes[2].bounds = Box(90, 90, 150, 150)
    /\ \A key \in {1, 2} : Candidate(key, last.viewport) /\ ~IsFreeForm(strokes[key])
    /\ Intersects(last.selector[1], strokes[2].bounds)
    /\ selection_keys(State) = {1}
    /\ selection_bounds = Some(Box(10, 10, 20, 20))

\* C8: a selector call never sets selected on a stroke that is trashed or not
\* rendered, whichever of its components are present
C8_HiddenNeverSelected ==
    IsSelectorCall =>
        \A key \in DOMAIN selection_components :
            (IsTrashed(State, key) \/ IsInvisible(State, key))
                => (selection_components[key] => last.prev[key])

\* C9: a selector call returns true exactly when the number of selected strokes
\* after the scan differs from the number before, and then selection_bounds is the
\* recomputed one; with equal numbers it returns false; a selector without bounds
\* makes it return false and change nothing
C9_ReturnsCountChanged ==
    /\ IsSelectorCall =>
          /\ last.ret <=> (selection_len(State) # NumSelected(last.prev))
          /\ last.ret => selection_bounds \in gen_bounds(State, selection_keys(State))
          /\ last.selector = None => ~last.ret /\ selection_components = last.prev
    /\ \A viewport \in Viewports :
          update_selection_for_selector(State, None, viewport)
              = {[st |-> State, ret |-> FALSE]}

\* a call that swapped the selected strokes and returned false
C9_Witness ==
    /\ IsSelectorCall
    /\ ~last.ret
    /\ selection_components # last.prev
    /\ selection_len(State) = NumSelected(last.prev)

\* C10: for a key without SelectionComponent selected returns None and set_selected
\* with either value changes nothing
C10_Unsupported ==
    \A key \in (Keys(State) \cup {InvalidKey}) \ DOMAIN selection_components :
        /\ selected(State, key) = None
        /\ \A value \in BOOLEAN : set_selected(State, key, value) = {State}

\* set_selected was called for a stroke without SelectionComponent
C10_Witness ==
    /\ last.op = "set_selected"
    /\ last.key \in Keys(State) \ DOMAIN selection_components
    /\ selected(State, last.key) = None
    /\ selection_len(State) > 0

\* the offset duplicate_selection moves a duplicate by
DupShift == Vec(DupOffset, DupOffset)

\* C11: duplicate_selection, called with k selected strokes, adds exactly k strokes;
\* every original is left with selected = false and every new stroke has
\* selected = true and the bounds of its original shifted by (20, 20); the strokes
\* that were not selected keep their stroke and their components
C11_DuplicateCounts ==
    \A d \in duplicate_selection(State) :
        LET orig == selection_keys(State)
            new  == Keys(d) \ Keys(State)
        IN /\ Keys(State) \subseteq Keys(d)
           /\ Cardinality(new) = Cardinality(orig)
           /\ \A o \in orig : selected(d, o) = Some(FALSE)
           /\ \A n \in new : selected(d, n) = Some(TRUE)
           /\ \E from \in [new -> orig] :
                 /\ \A o \in orig : \E n \in new : from[n] = o
                 /\ \A n \in new :
                       d.strokes[n].bounds
                           = aabb_translate(strokes[from[n]].bounds, DupShift)
           /\ \A key \in Keys(State) \ orig :
                 /\ d.strokes[key] = strokes[key]
                 /\ selected(d, key) = selected(State, key)
                 /\ key \in DOMAIN render_components =>
                       d.render_components[key] = render_components[key]
                 /\ key \in DOMAIN trash_components =>
                       d.trash_components[key] = trash_components[key]

\* two selected strokes were duplicated
C11_Witness ==
    /\ last.op = "duplicate_selection"
    /\ Keys(State) = 1..4
    /\ selection_keys(State) = {3, 4}
    /\ selected(State, 1) = Some(FALSE) /\ selected(State, 2) = Some(FALSE)
    /\ strokes[3].bounds = aabb_translate(strokes[1].bounds, DupShift)
    /\ strokes[4].bounds = aabb_translate(strokes[2].bounds, DupShift)

\* the offsets the translations are composed of
ComposedOffsets == Offsets \cup {Vec(-30, 5)}

VecAdd(v, w) == <<FAdd(v[1], w[1]), FAdd(v[2], w[2])>>

FAbs(a) == IF IsNaN(a) THEN a ELSE [a EXCEPT !.s = 1]

\* 2^-48, sixteen times the distance from 1 to the next f64
Eps == F(1, <<1>>, -48)

\* a and b are the same value or not further apart than tol
Within(a, b, tol) == a = b \/ FLe(FAbs(FSub(a, b)), tol)

\* on each axis i the sides of a and b are not further apart than tol[i]
BoxWithin(a, b, tol) ==
    \A i \in 1..2 :
        Within(a.mins[i], b.mins[i], tol[i]) /\ Within(a.maxs[i], b.maxs[i], tol[i])

\* |mins| + |maxs| of the box on the axis i
Mag(b, i) == FAdd(FAbs(b.mins[i]), FAbs(b.maxs[i]))

\* an integer of magnitude below 2^50
IsInt(a) == IsZero(a) \/ (a.m # <<>> /\ a.e >= 0 /\ BitLen(a.m) + a.e <= 50)

IntBox(b) == \A i \in 1..2 : IsInt(b.mins[i]) /\ IsInt(b.maxs[i])

\* C12 as stated: translate_selection(v1) followed by translate_selection(v2) gives
\* every stroke the bounds, and the cache the value, that translate_selection(v1 + v2)
\* gives; neither moves a stroke that is not selected
C12_TranslateComposes ==
    \A v1, v2 \in ComposedOffsets :
        LET two == translate_selection(translate_selection(State, v1), v2)
            one == translate_selection(State, VecAdd(v1, v2))
        IN /\ \A key \in Keys(State) : two.strokes[key].bounds = one.strokes[key].bounds
           /\ two.selection_bounds = one.selection_bounds
           /\ \A key \in Keys(State) \ selection_keys(State) :
                 two.strokes[key] = strokes[key] /\ one.strokes[key] = strokes[key]

\* C12: translate_selection(v1) followed by translate_selection(v2) gives every
\* stroke bounds, and the cache a value, that are those of translate_selection(v1 + v2)
\* up to the rounding of the additions: on each axis the sides differ by at most
\* 2^-48 * (|mins| + |maxs| + |v1| + |v2|), and not at all for a box with integer
\* coordinates (the offsets are integers); neither call moves a stroke that is not
\* selected
C12_TranslateComposesRounded ==
    \A v1, v2 \in ComposedOffsets :
        LET two == translate_selection(translate_selection(State, v1), v2)
            one == translate_selection(State, VecAdd(v1, v2))
            tol(b) == [i \in 1..2 |->
                         FMul(Eps, FAdd(Mag(b, i), FAdd(FAbs(v1[i]), FAbs(v2[i]))))]
            near(x, y, b) == BoxWithin(x, y, tol(b)) /\ (IntBox(b) => x = y)
        IN /\ \A key \in Keys(State) :
                 near(two.strokes[key].bounds, one.strokes[key].bounds,
                      strokes[key].bounds)
           /\ IF selection_bounds = None
              THEN two.selection_bounds = None /\ one.selection_bounds = None
              ELSE /\ two.selection_bounds # None /\ one.selection_bounds # None
                   /\ near(two.selection_bounds[1], one.selection_bounds[1],
                           selection_bounds[1])
           /\ \A key \in Keys(State) \ selection_keys(State) :
                 two.strokes[key] = strokes[key] /\ one.strokes[key] = strokes[key]

\* a selection next to a stroke that is not selected was translated, and a second
\* translation back composes to no translation at all
C12_Witness ==
    /\ last.op = "translate_selection"
    /\ selection_keys(State) = {1}
    /\ selected(State, 2) = Some(FALSE)
    /\ strokes[1].bounds = aabb_translate(B1, Vec(10, -10))
    /\ strokes[2].bounds = B2
    /\ selection_bounds = Some(strokes[1].bounds)
    /\ translate_selection(State, Vec(-10, 10)).strokes[1].bounds = B1

\* every coordinate of the box is finite and the box has an extent on both axes
NonDegenerate(b) ==
    \A i \in 1..2 :
        IsFinite(b.mins[i]) /\ IsFinite(b.maxs[i]) /\ FLt(b.mins[i], b.maxs[i])

FiniteOn(st, keys) ==
    \A k \in keys : \A i \in 1..2 :
        IsFinite(st.strokes[k].bounds.mins[i]) /\ IsFinite(st.strokes[k].bounds.maxs[i])

\* the cache is the union of the selected, not trashed strokes and has an extent
ConsistentCache(st) ==
    /\ st.selection_bounds # None
    /\ NonDegenerate(st.selection_bounds[1])
    /\ FiniteOn(st, selection_keys(st))
    /\ st.selection_bounds = BoundsUnion(st, SelectedNotTrashed(st))

\* the boxes a selection is resized to
ResizeTargets == ResizeBounds \cup {Box(-5, 20, 45, 30)}

\* the tolerance of a resize from the box A to the box B and back, on each axis
RoundTripTol(A, B) ==
    [i \in 1..2 |->
        FMul(Eps,
             FMul(FAdd(Mag(A, i), Mag(B, i)),
                  FAdd(R(1), FDiv(FSub(A.maxs[i], A.mins[i]),
                                  FSub(B.maxs[i], B.mins[i])))))]

\* C13: from a consistent cache A with an extent, resize_selection(B) for a B with
\* an extent followed by resize_selection(A) gives every selected stroke its
\* bounds back up to the rounding of the f64 operations, and the cache the value A:
\* on each axis the sides are off by at most
\* 2^-48 * (|A.mins| + |A.maxs| + |B.mins| + |B.maxs|) * (1 + width(A) / width(B));
\* the other strokes are unchanged
C13_ResizeRoundTrip ==
    ConsistentCache(State) =>
        \A B \in {b \in ResizeTargets : NonDegenerate(b)} :
            LET A    == selection_bounds[1]
                back == resize_selection(resize_selection(State, B), A)
            IN /\ \A key \in selection_keys(State) :
                     BoxWithin(back.strokes[key].bounds, strokes[key].bounds,
                               RoundTripTol(A, B))
               /\ back.selection_bounds = Some(A)
               /\ \A key \in Keys(State) \ selection_keys(State) :
                     back.strokes[key] = strokes[key]

\* both strokes were resized from [(10,10),(150,150)] to [(0,0),(100,50)]; the
\* resize back returns the bounds of the first stroke, and those of the second
\* up to rounding
C13_Witness ==
    /\ last.op = "resize_selection"
    /\ selection_keys(State) = {1, 2}
    /\ selection_bounds = Some(Box(0, 0, 100, 50))
    /\ ConsistentCache(State)
    /\ strokes[1].bounds # B1
    /\ LET back == resize_selection(State, Box(10, 10, 150, 150))
       IN /\ back.strokes[1].bounds = B1
          /\ back.strokes[2].bounds # B2
          /\ BoxWithin(back.strokes[2].bounds, B2,
                       RoundTripTol(Box(10, 10, 150, 150), Box(0, 0, 100, 50)))
          /\ back.selection_bounds = Some(Box(10, 10, 150, 150))

\* the box has no extent on one of its axes
ZeroExtent(b) == \E i \in 1..2 : b.mins[i] = b.maxs[i]

\* C14: with a cache of zero width or height resize_selection does not divide by
\* the zero extent: it leaves the state as it is, or it gives the strokes finite
\* bounds
C14_DegenerateGuarded ==
    (/\ selection_bounds # None
     /\ AllFinite(State)
     /\ ZeroExtent(selection_bounds[1])) =>
        \A new_bounds \in ResizeBounds :
            LET r == resize_selection(State, new_bounds)
            IN r = State \/ AllFinite(r)

\* C20 as stated: with a consistent cache that has an extent, resize_selection(new_bounds)
\* makes the union of the selected, not trashed strokes equal to new_bounds, puts
\* every selected stroke inside of new_bounds and leaves the other strokes alone;
\* with the cache None it changes nothing
C20_ResizeKeepsCacheConsistent ==
    \A new_bounds \in ResizeTargets :
        LET r == resize_selection(State, new_bounds)
        IN /\ selection_bounds = None => r = State
           /\ ConsistentCache(State) =>
                 /\ r.selection_bounds = Some(new_bounds)
                 /\ BoundsUnion(r, SelectedNotTrashed(r)) = Some(new_bounds)
                 /\ \A key \in selection_keys(State) :
                       Contains(new_bounds, r.strokes[key].bounds)
                 /\ \A key \in Keys(State) \ selection_keys(State) :
                       r.strokes[key] = strokes[key]

\* the tolerance of a resize from the box A to the box B, on each axis
ResizeTol(A, B) == [i \in 1..2 |-> FMul(Eps, FAdd(Mag(A, i), Mag(B, i)))]

\* C20: with a consistent cache old that has an extent, resize_selection(new_bounds)
\* writes new_bounds to the cache and makes the union of the selected, not trashed
\* strokes equal to new_bounds up to the rounding of the f64 operations: on each
\* axis the sides of the union differ from those of new_bounds, and a selected
\* stroke sticks out of new_bounds, by at most
\* 2^-48 * (|old.mins| + |old.maxs| + |new.mins| + |new.maxs|); the other strokes
\* are unchanged; with the cache None the call changes nothing
C20_ResizeKeepsCacheNear ==
    \A new_bounds \in ResizeTargets :
        LET r == resize_selection(State, new_bounds)
        IN /\ selection_bounds = None => r = State
           /\ ConsistentCache(State) =>
                 LET tol   == ResizeTol(selection_bounds[1], new_bounds)
                     union == BoundsUnion(r, SelectedNotTrashed(r))
                 IN /\ r.selection_bounds = Some(new_bounds)
                    /\ union # None /\ BoxWithin(union[1], new_bounds, tol)
                    /\ \A key \in selection_keys(State) : \A i \in 1..2 :
                          /\ FLe(FSub(new_bounds.mins[i], tol[i]),
                                 r.strokes[key].bounds.mins[i])
                          /\ FLe(r.strokes[key].bounds.maxs[i],
                                 FAdd(new_bounds.maxs[i], tol[i]))
                    /\ \A key \in Keys(State) \ selection_keys(State) :
                          r.strokes[key] = strokes[key]

\* both strokes were resized and the cache is their union
C20_Witness ==
    /\ last.op = "resize_selection"
    /\ selection_keys(State) = {1, 2}
    /\ SelectedNotTrashed(State) = {1, 2}
    /\ selection_bounds = Some(Box(0, 0, 100, 50))
    /\ BoundsUnion(State, {1, 2}) = selection_bounds
    /\ strokes[1].bounds # B1
    /\ Contains(Box(0, 0, 100, 50), strokes[1].bounds)
    /\ Contains(Box(0, 0, 100, 50), strokes[2].bounds)

IsExport == last.op = "export_selection_as_svg"

\* C15: in export_selection_as_svg a destination that was opened is closed by the
\* close step of the call on every exit path; a failing open, write or close makes
\* the call return an error; with the cache None the destination is neither opened
\* nor written and the call succeeds
C15_ClosedOnEveryExit ==
    /\ (IsExport /\ last.out.stream # "unopened") =>
           last.out.close_called /\ last.out.stream = "closed"
    /\ \A broken \in BrokenSets, open_ok, close_ok, drop_closes \in BOOLEAN,
          write \in WriteOutcomes :
          LET e == export_selection_as_svg(State, broken, open_ok, write, close_ok,
                                           drop_closes)
          IN /\ (selection_bounds # None /\ open_ok) =>
                    e.close_called /\ e.stream = "closed"
             /\ (selection_bounds # None /\ ~(open_ok /\ write # "fail" /\ close_ok))
                    => ~e.ok
             /\ selection_bounds = None =>
                    e.stream = "unopened" /\ e.written = "none" /\ e.ok

\* C16: the data export_selection_as_svg writes holds a fragment only for strokes
\* that are selected, not trashed and rendered
C16_ExportOmitsTrashedAndHidden ==
    (IsExport /\ last.out.written # "none") =>
        \A key \in last.out.data :
            /\ IsSelected(key)
            /\ ~IsTrashed(State, key)
            /\ ~IsInvisible(State, key)

IsLastSelectionKey == last.op = "last_selection_key"

ScanOrders == Perms(DOMAIN chrono_components)

\* C17 as stated: last_selection_key returns None exactly when no stroke is selected
\* and not trashed, and otherwise a selected, not trashed stroke whose t is not
\* below the t of any other (stated for the states in which every stroke has a
\* TrashComponent)
C17_NewestSelected ==
    (IsLastSelectionKey /\ DOMAIN trash_components = Keys(State)) =>
        /\ last.out = None <=> SelectedNotTrashed(State) = {}
        /\ last.out # None =>
              /\ last.out[1] \in SelectedNotTrashed(State)
              /\ \A other \in SelectedNotTrashed(State) :
                    /\ other \in DOMAIN chrono_components
                    /\ chrono_components[other] <= chrono_components[last.out[1]]

\* the strokes last_selection_key chooses from
Eligible(st) ==
    {key \in DOMAIN st.chrono_components \cap DOMAIN st.trash_components
                \cap DOMAIN st.selection_components :
        st.selection_components[key] /\ ~st.trash_components[key]}

\* C17: last_selection_key returns None exactly when no stroke with Chrono-, Trash-
\* and SelectionComponent is selected and not trashed, and otherwise such a stroke
\* whose t is not below the t of any other such stroke; the values it can return
\* are the same for every order of the scan
C17_NewestEligible ==
    /\ \A order \in ScanOrders :
          \A result \in last_selection_key(State, order) :
              /\ result = None <=> Eligible(State) = {}
              /\ result # None =>
                    /\ result[1] \in Eligible(State)
                    /\ \A other \in Eligible(State) :
                          chrono_components[other] <= chrono_components[result[1]]
    /\ \A first, second \in ScanOrders :
          last_selection_key(State, first) = last_selection_key(State, second)
    /\ IsLastSelectionKey =>
          \E order \in ScanOrders : last.out \in last_selection_key(State, order)

\* both strokes are selected and the one with the smaller key and the greater t was
\* returned
C17_Witness ==
    /\ IsLastSelectionKey
    /\ Eligible(State) = {1, 2}
    /\ chrono_components[1] > chrono_components[2]
    /\ last.out = Some(1)

\* C18: every stroke duplicate_selection creates has a Selection-, Render-, Trash-
\* and ChronoComponent, rendered and not trashed, so that last_selection_key after
\* a duplicate_selection of a selection that is not empty returns a duplicate
C18_DuplicatesHaveChrono ==
    (last.op = "duplicate_selection" /\ selection_keys(State) # {}) =>
        /\ \A key \in selection_keys(State) :
              /\ key \in DOMAIN render_components /\ render_components[key]
              /\ key \in DOMAIN trash_components /\ ~trash_components[key]
              /\ key \in DOMAIN chrono_components
        /\ \A order \in ScanOrders :
              \A result \in last_selection_key(State, order) :
                  result # None /\ result[1] \in selection_keys(State)

\* the scan of a selector call with the given viewport skips the stroke
SkippedByScan(key, viewport) ==
    \/ /\ key \in DOMAIN render_components
       /\ key \in DOMAIN trash_components
       /\ (~render_components[key] \/ trash_components[key])
    \/ /\ viewport # None
       /\ ~Intersects(viewport[1], strokes[key].bounds)

\* C19: update_selection_for_selector leaves the selected flag of every stroke its
\* scan skips as it is, and changes no stroke, RenderComponent or TrashComponent
C19_SkippedKeepFlag ==
    /\ (IsSelectorCall /\ last.selector # None) =>
          \A key \in Keys(State) \cap DOMAIN selection_components :
              SkippedByScan(key, last.viewport) =>
                  selection_components[key] = last.prev[key]
    /\ \A selector \in Selectors, viewport \in Viewports :
          \A r \in update_selection_for_selector(State, selector, viewport) :
             /\ r.st.strokes = strokes
             /\ r.st.render_components = render_components
             /\ r.st.trash_components = trash_components
             /\ \A key \in Keys(State) \cap DOMAIN selection_components :
                   SkippedByScan(key, viewport) =>
                       r.st.selection_components[key] = selection_components[key]

\* a selected stroke outside of the viewport, which the selector would not select,
\* is still selected after the call
C19_Witness ==
    /\ IsSelectorCall
    /\ last.selector = Some(S1)
    /\ last.viewport = Some(V1)
    /\ ~Intersects(V1, strokes[2].bounds)
    /\ ~HitBySelector(strokes[2], S1)
    /\ last.prev[2]
    /\ selection_components[2]

====
